---- MODULE Spec2Model ----
(***************************************************************************)
(* State-machine model of nft-contract/src/series.rs: the series registry  *)
(* (create_series), the minting engine (nft_mint) and the mint-id          *)
(* indirection (update_mint_id) of the photography NFT series contract.    *)
(*                                                                         *)
(* Every public method runs as one host transition.  A handler is modelled *)
(* as an operator that walks the method's statements in source order over  *)
(* a working copy of the store and returns the result together with the    *)
(* working copy at the point of return or panic; the action then commits   *)
(* the working copy only when the method returned normally, as the host    *)
(* does.                                                                   *)
(***************************************************************************)
EXTENDS Integers, Sequences, FiniteSets, TLC

VARIABLES
    series_by_id,          \* Contract.series_by_id: series id -> Series
    series_id_by_mint_id,  \* Contract.series_id_by_mint_id: mint id -> series id
    series_tokens,         \* the storage under the prefixes of the Series.tokens sets
    tokens_by_id,          \* Contract.tokens_by_id: token id -> Token
    tokens_per_owner,      \* Contract.tokens_per_owner: account -> set of token ids
    approved_creators,     \* Contract.approved_creators
    approved_minters,      \* Contract.approved_minters
    events,                \* the log lines of the transitions that were committed
    outcome                \* the outcome of the transition being returned to its caller:
                           \* the call, its result and the log lines it wrote

\* what the contract keeps in storage
contract_vars == <<series_by_id, series_id_by_mint_id, series_tokens, tokens_by_id,
                   tokens_per_owner, approved_creators, approved_minters>>

vars == <<series_by_id, series_id_by_mint_id, series_tokens, tokens_by_id,
          tokens_per_owner, approved_creators, approved_minters, events, outcome>>

store_vars == <<series_by_id, series_id_by_mint_id, series_tokens, tokens_by_id,
                tokens_per_owner, approved_creators, approved_minters, events>>

-----------------------------------------------------------------------------
(* Bounds of the model *)

MaxSeries == 2
MaxTokens == 2

\* series created in the runs that follow the storage prefixes
MaxPrefixSeries == 10

\* callers, receivers, mint ids and attached deposits (in storage units) tried
Accounts == {"alice", "bob", "carol"}
Receivers == {"dave"}
MintIds == {1, 2, 3}
Deposits == {1, 3}

-----------------------------------------------------------------------------
(* Option<T> *)

None == <<>>
Some(x) == <<x>>
is_some(o) == o # <<>>
unwrap(o) == o[1]

Copies == {None, Some(0), Some(1)}
Royalties == {Some([alice |-> 500])}

\* struct KeypomArgs
NewKeypomArgs(account_id_field, drop_id_field, key_id_field) ==
    [account_id_field |-> account_id_field, drop_id_field |-> drop_id_field,
     key_id_field |-> key_id_field]

\* the payloads tried: well formed with and without a key field, each field
\* misnamed, each field missing, the two names swapped
KeypomArgs ==
    {NewKeypomArgs(Some("receiver_id"), Some("mint_id"), Some("key_id")),
     NewKeypomArgs(Some("receiver_id"), Some("mint_id"), None),
     NewKeypomArgs(Some("receiver_id"), Some("wrong_name"), Some("key_id")),
     NewKeypomArgs(Some("receiver_id"), None, None),
     NewKeypomArgs(Some("wrong_name"), Some("mint_id"), None),
     NewKeypomArgs(None, Some("mint_id"), Some("key_id")),
     NewKeypomArgs(Some("mint_id"), Some("receiver_id"), Some("key_id"))}

-----------------------------------------------------------------------------
(* format!("{}", n) of an unsigned integer *)

Digit(d) ==
    CASE d = 0 -> "0" [] d = 1 -> "1" [] d = 2 -> "2" [] d = 3 -> "3" [] d = 4 -> "4"
      [] d = 5 -> "5" [] d = 6 -> "6" [] d = 7 -> "7" [] d = 8 -> "8" [] d = 9 -> "9"

RECURSIVE to_string(_)
to_string(n) == IF n < 10 THEN Digit(n) ELSE to_string(n \div 10) \o Digit(n % 10)

\* the token id built from the ordinal alone
TokenIdOf_OrdinalOnly(series_id, ordinal) == to_string(ordinal)

\* format!("{}:{}", series_id, cur_len + 1)
TokenIdOf(series_id, ordinal) == to_string(series_id) \o ":" \o to_string(ordinal)

\* format!("{}{}", series_id, caller), the input of hash_account_id
SeriesPrefix(series_id, caller) == to_string(series_id) \o caller

-----------------------------------------------------------------------------
(* The store a transition works on *)

Store ==
    [series_by_id |-> series_by_id,
     series_id_by_mint_id |-> series_id_by_mint_id,
     series_tokens |-> series_tokens,
     tokens_by_id |-> tokens_by_id,
     tokens_per_owner |-> tokens_per_owner,
     approved_creators |-> approved_creators,
     approved_minters |-> approved_minters,
     events |-> events]

\* LookupMap::insert / UnorderedMap::insert: put k -> v, overwriting
MapInsert(m, k, v) == [x \in (DOMAIN m) \cup {k} |-> IF x = k THEN v ELSE m[x]]

\* LookupMap::remove
MapRemove(m, k) == [x \in (DOMAIN m) \ {k} |-> m[x]]

\* UnorderedSet::new(prefix): the handle kept inside the Series record.  The
\* elements live in storage under the prefix, elements[i] at position i and
\* element_index[e] the position of element e; only the length is in the handle.
UnorderedSet_new(prefix) == [prefix |-> prefix, len |-> 0]

\* UnorderedSet::len
UnorderedSet_len(set) == set.len

\* what storage holds under a prefix
UnorderedSet_stored(storage, prefix) ==
    IF prefix \in DOMAIN storage THEN storage[prefix]
    ELSE [elements |-> <<>>, element_index |-> <<>>]

\* UnorderedSet::iter: the elements at the positions below the handle's length
UnorderedSet_iter(storage, set) ==
    {UnorderedSet_stored(storage, set.prefix).elements[i] : i \in 0 .. (set.len - 1)}

\* UnorderedSet::insert: nothing when the element has an index entry, else the
\* element is written at position len with its index entry and len grows
UnorderedSet_insert(storage, set, element) ==
    LET stored == UnorderedSet_stored(storage, set.prefix) IN
    IF element \in DOMAIN stored.element_index
    THEN [set |-> set, storage |-> storage]
    ELSE [set |-> [set EXCEPT !.len = @ + 1],
          storage |->
            MapInsert(storage, set.prefix,
                      [elements |-> MapInsert(stored.elements, set.len, element),
                       element_index |->
                            MapInsert(stored.element_index, element, set.len)])]

RECURSIVE SumOver(_, _)
SumOver(S, f) ==
    IF S = {} THEN 0
    ELSE LET x == CHOOSE y \in S : TRUE IN f[x] + SumOver(S \ {x}, f)

\* env::storage_usage(), in storage units: one per stored map entry, one per
\* indexed element of an issued set, one per element of an ownership index
storage_usage(st) ==
    Cardinality(DOMAIN st.series_id_by_mint_id)
    + Cardinality(DOMAIN st.series_by_id)
    + SumOver(DOMAIN st.series_tokens,
              [p \in DOMAIN st.series_tokens |->
                    Cardinality(DOMAIN st.series_tokens[p].element_index)])
    + Cardinality(DOMAIN st.tokens_by_id)
    + SumOver(DOMAIN st.tokens_per_owner,
              [a \in DOMAIN st.tokens_per_owner |-> Cardinality(st.tokens_per_owner[a])])

\* a method that returned normally / a method that panicked with error e
Return(st) == [result |-> "Ok", store |-> st]
Panic(st, e) == [result |-> e, store |-> st]

\* refund_deposit(required_storage_in_bytes) at attached deposit `deposit`
refund_deposit(st, required_storage, deposit) ==
    IF deposit >= required_storage THEN Return(st) ELSE Panic(st, "InsufficientDeposit")

\* self.is_approved_creator(caller)
is_approved_creator(st, caller) == caller \in st.approved_creators

\* self.internal_add_token_to_owner(&owner, &token_id)
internal_add_token_to_owner(st, owner, token_id) ==
    [st EXCEPT !.tokens_per_owner =
        MapInsert(@, owner,
                  (IF owner \in DOMAIN @ THEN @[owner] ELSE {}) \cup {token_id})]

-----------------------------------------------------------------------------
(* Contract::create_series *)

\* the result of the insert ignored
create_mint_id_is_new_Ignored(st, final_mint_id) == TRUE

\* series_id_by_mint_id.insert(&final_mint_id, &series_id).is_none()
create_mint_id_is_new(st, final_mint_id) ==
    final_mint_id \notin DOMAIN st.series_id_by_mint_id

\* struct Series as create_series builds it; tokens is the UnorderedSet kept
\* under the storage prefix hash_account_id(format!("{}{}", series_id, caller))
NewSeries(series_id, final_mint_id, metadata, royalty, caller) ==
    [mint_id |-> final_mint_id,
     metadata |-> metadata,
     royalty |-> royalty,
     tokens |-> UnorderedSet_new(SeriesPrefix(series_id, caller)),
     owner_id |-> caller]

\* the settlement left out
create_series_settle_Skipped(st, initial_storage_usage, deposit) == Return(st)

\* required_storage_in_bytes = env::storage_usage() - initial_storage_usage;
\* refund_deposit(required_storage_in_bytes)
create_series_settle(st, initial_storage_usage, deposit) ==
    refund_deposit(st, storage_usage(st) - initial_storage_usage, deposit)

\* the series numbered from zero
next_series_id_ZeroBased(st) == Cardinality(DOMAIN st.series_by_id)

\* let series_id = self.series_by_id.len() + 1
next_series_id(st) == Cardinality(DOMAIN st.series_by_id) + 1

create_series_body(st, caller, mint_id, metadata, royalty, deposit) ==
    LET initial_storage_usage == storage_usage(st) IN
    IF ~is_approved_creator(st, caller) THEN Panic(st, "Unauthorized")
    ELSE
    LET series_id == next_series_id(st)
        final_mint_id == IF is_some(mint_id) THEN unwrap(mint_id) ELSE series_id
        st1 == [st EXCEPT !.series_id_by_mint_id = MapInsert(@, final_mint_id, series_id)]
    IN
    IF ~create_mint_id_is_new(st, final_mint_id) THEN Panic(st1, "DuplicateMintId")
    ELSE
    LET st2 == [st1 EXCEPT !.series_by_id =
                    MapInsert(@, series_id,
                              NewSeries(series_id, final_mint_id, metadata, royalty,
                                        caller))]
    IN
    IF series_id \in DOMAIN st1.series_by_id THEN Panic(st2, "DuplicateSeriesId")
    ELSE create_series_settle(st2, initial_storage_usage, deposit)

-----------------------------------------------------------------------------
(* Contract::nft_mint *)

\* struct Token as nft_mint builds it
NewToken(series_id, receiver_id) ==
    [series_id |-> series_id,
     owner_id |-> receiver_id,
     approved_account_ids |-> <<>>,
     next_approval_id |-> 0]

\* EventLog { standard, version, event: NftMint(vec![NftMintLog {..}]) }
NftMintEvent(owner_id, token_id) ==
    [standard |-> "nep171",
     version |-> "nft-1.0.0",
     event |-> "nft_mint",
     data |-> <<[owner_id |-> owner_id, token_ids |-> <<token_id>>, memo |-> None]>>]

\* the drop-id field only required to be present
drop_id_field_ok_AnyName(keypom_args) == is_some(keypom_args.drop_id_field)

\* require!(keypom_args.drop_id_field.unwrap() == "mint_id", ..)
drop_id_field_ok(keypom_args) ==
    is_some(keypom_args.drop_id_field) /\ unwrap(keypom_args.drop_id_field) = "mint_id"

\* require!(keypom_args.account_id_field.unwrap() == "receiver_id", ..)
account_id_field_ok(keypom_args) ==
    is_some(keypom_args.account_id_field)
    /\ unwrap(keypom_args.account_id_field) = "receiver_id"

\* the caller looked up in approved_creators
is_approved_minter_AsCreator(st, predecessor) == predecessor \in st.approved_creators

\* assert!(self.approved_minters.contains(&predecessor), ..)
is_approved_minter(st, predecessor) == predecessor \in st.approved_minters

\* the ceiling compared with <= in place of <
supply_left_OffByOne(copies, cur_len) == is_some(copies) => cur_len <= unwrap(copies)

\* the ceiling never enforced
supply_left_Unchecked(copies, cur_len) == TRUE

\* if let Some(copies) = series.metadata.copies { require!(cur_len < copies, ..) }
supply_left(copies, cur_len) == is_some(copies) => cur_len < unwrap(copies)

\* required_storage_in_bytes = env::storage_usage() - initial_storage_usage;
\* refund_deposit(required_storage_in_bytes)
nft_mint_settle(st, initial_storage_usage, deposit) ==
    refund_deposit(st, storage_usage(st) - initial_storage_usage, deposit)

\* the caller checked before the payload
nft_mint_body_MinterFirst(st, predecessor, mint_id, receiver_id, keypom_args, deposit) ==
    IF ~is_approved_minter(st, predecessor) THEN Panic(st, "Unauthorized")
    ELSE IF ~drop_id_field_ok(keypom_args) THEN Panic(st, "MalformedIntegrityPayload")
    ELSE IF ~account_id_field_ok(keypom_args) THEN Panic(st, "MalformedIntegrityPayload")
    ELSE
    LET initial_storage_usage == storage_usage(st) IN
    IF mint_id \notin DOMAIN st.series_id_by_mint_id THEN Panic(st, "UnknownMintId")
    ELSE
    LET series_id == st.series_id_by_mint_id[mint_id] IN
    IF series_id \notin DOMAIN st.series_by_id THEN Panic(st, "UnknownSeries")
    ELSE
    LET series == st.series_by_id[series_id]
        cur_len == UnorderedSet_len(series.tokens)
    IN
    IF ~supply_left(series.metadata.copies, cur_len) THEN Panic(st, "SupplyExhausted")
    ELSE
    LET token_id == TokenIdOf(series_id, cur_len + 1)
        inserted == UnorderedSet_insert(st.series_tokens, series.tokens, token_id)
        series1 == [series EXCEPT !.tokens = inserted.set]
        st1 == [st EXCEPT !.series_tokens = inserted.storage,
                          !.series_by_id = MapInsert(@, series_id, series1)]
        token == NewToken(series_id, receiver_id)
        st2 == [st1 EXCEPT !.tokens_by_id = MapInsert(@, token_id, token)]
    IN
    IF token_id \in DOMAIN st1.tokens_by_id THEN Panic(st2, "DuplicateTokenId")
    ELSE
    LET st3 == internal_add_token_to_owner(st2, token.owner_id, token_id)
        st4 == [st3 EXCEPT !.events = Append(@, NftMintEvent(token.owner_id, token_id))]
    IN
    nft_mint_settle(st4, initial_storage_usage, deposit)

nft_mint_body(st, predecessor, mint_id, receiver_id, keypom_args, deposit) ==
    IF ~drop_id_field_ok(keypom_args) THEN Panic(st, "MalformedIntegrityPayload")
    ELSE IF ~account_id_field_ok(keypom_args) THEN Panic(st, "MalformedIntegrityPayload")
    ELSE
    LET initial_storage_usage == storage_usage(st) IN
    IF ~is_approved_minter(st, predecessor) THEN Panic(st, "Unauthorized")
    ELSE IF mint_id \notin DOMAIN st.series_id_by_mint_id THEN Panic(st, "UnknownMintId")
    ELSE
    LET series_id == st.series_id_by_mint_id[mint_id] IN
    IF series_id \notin DOMAIN st.series_by_id THEN Panic(st, "UnknownSeries")
    ELSE
    LET series == st.series_by_id[series_id]
        cur_len == UnorderedSet_len(series.tokens)
    IN
    IF ~supply_left(series.metadata.copies, cur_len) THEN Panic(st, "SupplyExhausted")
    ELSE
    LET token_id == TokenIdOf(series_id, cur_len + 1)
        inserted == UnorderedSet_insert(st.series_tokens, series.tokens, token_id)
        series1 == [series EXCEPT !.tokens = inserted.set]
        st1 == [st EXCEPT !.series_tokens = inserted.storage,
                          !.series_by_id = MapInsert(@, series_id, series1)]
        token == NewToken(series_id, receiver_id)
        st2 == [st1 EXCEPT !.tokens_by_id = MapInsert(@, token_id, token)]
    IN
    IF token_id \in DOMAIN st1.tokens_by_id THEN Panic(st2, "DuplicateTokenId")
    ELSE
    LET st3 == internal_add_token_to_owner(st2, token.owner_id, token_id)
        st4 == [st3 EXCEPT !.events = Append(@, NftMintEvent(token.owner_id, token_id))]
    IN
    nft_mint_settle(st4, initial_storage_usage, deposit)

-----------------------------------------------------------------------------
(* Contract::update_mint_id *)

\* the old entry read with get and left in place
remove_old_mint_id_Kept(st, old_mint_id) == st

\* self.series_id_by_mint_id.remove(&old_mint_id)
remove_old_mint_id(st, old_mint_id) ==
    [st EXCEPT !.series_id_by_mint_id = MapRemove(@, old_mint_id)]

\* any approved creator accepted as owner
owner_is_caller_AnyCreator(st, series, caller) == caller \in st.approved_creators

\* require!(series.owner_id == caller, ..)
owner_is_caller(st, series, caller) == series.owner_id = caller

\* the result of the insert ignored
update_mint_id_is_new_Ignored(st, new_mint_id) == TRUE

\* series_id_by_mint_id.insert(&new_mint_id, &series_id).is_none()
update_mint_id_is_new(st, new_mint_id) ==
    new_mint_id \notin DOMAIN st.series_id_by_mint_id

\* the series written back with a fresh issued set
set_mint_id_FreshTokens(series, new_mint_id) ==
    [series EXCEPT !.mint_id = new_mint_id, !.tokens = UnorderedSet_new(@.prefix)]

\* the series record written back without its new mint id
set_mint_id_Forgotten(series, new_mint_id) == series

\* series.mint_id = new_mint_id
set_mint_id(series, new_mint_id) == [series EXCEPT !.mint_id = new_mint_id]

update_mint_id_body(st, caller, old_mint_id, new_mint_id) ==
    IF old_mint_id \notin DOMAIN st.series_id_by_mint_id THEN Panic(st, "UnknownMintId")
    ELSE
    LET series_id == st.series_id_by_mint_id[old_mint_id]
        st1 == remove_old_mint_id(st, old_mint_id)
    IN
    IF series_id \notin DOMAIN st1.series_by_id THEN Panic(st1, "UnknownSeries")
    ELSE
    LET series == st1.series_by_id[series_id] IN
    IF ~owner_is_caller(st1, series, caller) THEN Panic(st1, "Unauthorized")
    ELSE
    LET st2 == [st1 EXCEPT !.series_id_by_mint_id = MapInsert(@, new_mint_id, series_id)] IN
    IF ~update_mint_id_is_new(st1, new_mint_id) THEN Panic(st2, "DuplicateMintId")
    ELSE
    LET series1 == set_mint_id(series, new_mint_id) IN
    Return([st2 EXCEPT !.series_by_id = MapInsert(@, series_id, series1)])

-----------------------------------------------------------------------------
(* Transitions *)

\* The host commits the writes of a method that returned and discards the
\* writes of a method that panicked (require!, assert!, expect, unwrap).
Commit(r) ==
    LET st == IF r.result = "Ok" THEN r.store ELSE Store IN
    /\ series_by_id' = st.series_by_id
    /\ series_id_by_mint_id' = st.series_id_by_mint_id
    /\ series_tokens' = st.series_tokens
    /\ tokens_by_id' = st.tokens_by_id
    /\ tokens_per_owner' = st.tokens_per_owner
    /\ approved_creators' = st.approved_creators
    /\ approved_minters' = st.approved_minters
    /\ events' = st.events

NoOutcome == [op |-> "none"]

\* The lines the method passed to env::log_str, as the outcome of the call
\* shows them.  They are not storage: the lines a method wrote before it
\* panicked are not undone with its writes, and whether the outcome of a
\* failed call still carries them (kept) is the host's doing, not the
\* contract's.
OutcomeLogs(r, kept) ==
    IF r.result = "Ok" \/ kept
    THEN SubSeq(r.store.events, Len(events) + 1, Len(r.store.events))
    ELSE <<>>

\* The contract after construction: nothing stored; the two approval sets are
\* managed outside this file and only read here, so they start populated.
Init ==
    /\ series_by_id = <<>>
    /\ series_id_by_mint_id = <<>>
    /\ series_tokens = <<>>
    /\ tokens_by_id = <<>>
    /\ tokens_per_owner = <<>>
    /\ approved_creators = {"alice", "bob"}
    /\ approved_minters = {"bob", "carol"}
    /\ events = <<>>
    /\ outcome = NoOutcome

\* a call of create_series, followed while at most max_series series are stored
create_series_upto(max_series, caller, mint_id, metadata, royalty, deposit) ==
    /\ outcome = NoOutcome
    /\ LET r == create_series_body(Store, caller, mint_id, metadata, royalty, deposit) IN
        /\ r.result = "Ok" => Cardinality(DOMAIN r.store.series_by_id) <= max_series
        /\ Commit(r)
        /\ outcome' = [op |-> "create_series", caller |-> caller, mint_id |-> mint_id,
                       deposit |-> deposit, result |-> r.result,
                       logs |-> OutcomeLogs(r, TRUE)]

create_series(caller, mint_id, metadata, royalty, deposit) ==
    create_series_upto(MaxSeries, caller, mint_id, metadata, royalty, deposit)

nft_mint(predecessor, mint_id, receiver_id, keypom_args, deposit) ==
    /\ outcome = NoOutcome
    /\ LET r == nft_mint_body(Store, predecessor, mint_id, receiver_id, keypom_args,
                              deposit) IN
        /\ r.result = "Ok" => Cardinality(DOMAIN r.store.tokens_by_id) <= MaxTokens
        /\ Commit(r)
        /\ \E kept \in BOOLEAN :
            outcome' = [op |-> "nft_mint", caller |-> predecessor, mint_id |-> mint_id,
                        receiver_id |-> receiver_id, keypom_args |-> keypom_args,
                        deposit |-> deposit, result |-> r.result,
                        logs |-> OutcomeLogs(r, kept)]

\* #[payable]: a deposit may be attached, and the method never reads it
update_mint_id(caller, old_mint_id, new_mint_id, deposit) ==
    /\ outcome = NoOutcome
    /\ LET r == update_mint_id_body(Store, caller, old_mint_id, new_mint_id) IN
        /\ Commit(r)
        /\ outcome' = [op |-> "update_mint_id", caller |-> caller,
                       old_mint_id |-> old_mint_id, new_mint_id |-> new_mint_id,
                       result |-> r.result, logs |-> OutcomeLogs(r, TRUE)]

\* The host hands the outcome to the caller; the next transition may start.
ReturnToCaller ==
    /\ outcome # NoOutcome
    /\ outcome' = NoOutcome
    /\ UNCHANGED store_vars

Next ==
    \/ /\ outcome = NoOutcome
       /\ \/ \E caller \in Accounts, mint_id \in {None} \cup {Some(m) : m \in MintIds},
                copies \in Copies, royalty \in Royalties, deposit \in Deposits :
                  create_series(caller, mint_id, [copies |-> copies], royalty, deposit)
          \/ \E predecessor \in Accounts, mint_id \in MintIds, receiver_id \in Receivers,
                keypom_args \in KeypomArgs, deposit \in Deposits :
                  nft_mint(predecessor, mint_id, receiver_id, keypom_args, deposit)
          \/ \E caller \in Accounts, old_mint_id \in MintIds, new_mint_id \in MintIds,
                deposit \in Deposits :
                  update_mint_id(caller, old_mint_id, new_mint_id, deposit)
    \/ ReturnToCaller

Spec == Init /\ [][Next]_vars

-----------------------------------------------------------------------------
(* The storage prefixes of many series.  The prefix of a series' issued set *)
(* is made from the decimal series id followed by the creator's account id, *)
(* so what it is worth shows only with series ids of two digits and account *)
(* ids that begin with a digit: these runs create up to MaxPrefixSeries    *)
(* series for two such creators and mint into the first and the last.      *)

PrefixCreators == {"0bob", "bob"}
PrefixMintIds == {1, MaxPrefixSeries}

InitPrefix ==
    /\ series_by_id = <<>>
    /\ series_id_by_mint_id = <<>>
    /\ series_tokens = <<>>
    /\ tokens_by_id = <<>>
    /\ tokens_per_owner = <<>>
    /\ approved_creators = PrefixCreators
    /\ approved_minters = {"bob", "carol"}
    /\ events = <<>>
    /\ outcome = NoOutcome

NextPrefix ==
    \/ \E caller \in PrefixCreators, royalty \in Royalties :
            create_series_upto(MaxPrefixSeries, caller, None, [copies |-> None], royalty,
                               CHOOSE d \in Deposits : \A e \in Deposits : e <= d)
    \/ \E mint_id \in PrefixMintIds, receiver_id \in Receivers :
            nft_mint("bob", mint_id, receiver_id,
                     NewKeypomArgs(Some("receiver_id"), Some("mint_id"), None),
                     CHOOSE d \in Deposits : \A e \in Deposits : e <= d)
    \/ ReturnToCaller

SpecPrefix == InitPrefix /\ [][NextPrefix]_vars

-----------------------------------------------------------------------------
(* Vocabulary of the properties *)

\* the transition just returned is a call of op
Called(op) == outcome.op = op

\* the step is a call of op (the call recorded in the next state)
Calls(op) == outcome'.op = op

\* a deposit that covers the storage of any single call
LargestDeposit == CHOOSE d \in Deposits : \A e \in Deposits : e <= d

\* the payload names both fields as nft_mint requires
WellFormed(keypom_args) ==
    /\ keypom_args.drop_id_field = Some("mint_id")
    /\ keypom_args.account_id_field = Some("receiver_id")

\* the length and the elements of the issued set of series s
IssuedCount(s) == UnorderedSet_len(series_by_id[s].tokens)
IssuedSet(s) == UnorderedSet_iter(series_tokens, series_by_id[s].tokens)

\* reading a token id back: the text before and after its colon as numbers
DigitValue(c) ==
    CASE c = "0" -> 0 [] c = "1" -> 1 [] c = "2" -> 2 [] c = "3" -> 3 [] c = "4" -> 4
      [] c = "5" -> 5 [] c = "6" -> 6 [] c = "7" -> 7 [] c = "8" -> 8 [] c = "9" -> 9

RECURSIVE ParseNat(_)
ParseNat(str) ==
    IF Len(str) = 0 THEN 0
    ELSE ParseNat(SubSeq(str, 1, Len(str) - 1)) * 10
         + DigitValue(SubSeq(str, Len(str), Len(str)))

Colons(token_id) == {i \in 1 .. Len(token_id) : SubSeq(token_id, i, i) = ":"}

ParseTokenId(token_id) ==
    LET c == CHOOSE i \in Colons(token_id) : TRUE IN
    <<ParseNat(SubSeq(token_id, 1, c - 1)),
      ParseNat(SubSeq(token_id, c + 1, Len(token_id)))>>

-----------------------------------------------------------------------------
(* C1: in every reachable state, a series whose metadata.copies is set has *)
(* issued at most copies tokens (none at all when copies = 0).             *)
C1_SupplyCeiling ==
    \A s \in DOMAIN series_by_id :
        is_some(series_by_id[s].metadata.copies)
            => IssuedCount(s) <= unwrap(series_by_id[s].metadata.copies)

\* a series at its ceiling has just refused a mint, and a copies = 0 series exists
C1_Witness ==
    /\ Called("nft_mint") /\ outcome.result = "SupplyExhausted"
    /\ \E s \in DOMAIN series_by_id :
        /\ series_by_id[s].mint_id = outcome.mint_id
        /\ series_by_id[s].metadata.copies = Some(IssuedCount(s))
        /\ IssuedCount(s) > 0
    /\ \E s \in DOMAIN series_by_id : series_by_id[s].metadata.copies = Some(0)

\* the series a mint id resolves to in the current state
Resolved(mint_id) == series_id_by_mint_id[mint_id]

\* an nft_mint step that passes every check but the supply ceiling
OtherwiseValidMint ==
    /\ Calls("nft_mint")
    /\ WellFormed(outcome'.keypom_args)
    /\ outcome'.caller \in approved_minters
    /\ outcome'.mint_id \in DOMAIN series_id_by_mint_id
    /\ outcome'.deposit = LargestDeposit

(* C2: for a series with copies = N, an otherwise valid nft_mint succeeds  *)
(* and issues one more token while fewer than N are issued, and fails with *)
(* SupplyExhausted, leaving every series and the token store unchanged,    *)
(* once N are issued; no other step changes a series' issued count, so the *)
(* first N such mints succeed and every later one fails however the other  *)
(* calls are interleaved.                                                  *)
C2_MintUntilExhausted ==
    [][/\ OtherwiseValidMint
            => LET s == Resolved(outcome'.mint_id)
                   copies == series_by_id[s].metadata.copies
               IN is_some(copies)
                    => IF IssuedCount(s) < unwrap(copies)
                       THEN /\ outcome'.result = "Ok"
                            /\ UnorderedSet_len(series_by_id'[s].tokens)
                                    = IssuedCount(s) + 1
                       ELSE /\ outcome'.result = "SupplyExhausted"
                            /\ UNCHANGED <<series_by_id, tokens_by_id>>
       /\ \A s \in DOMAIN series_by_id :
            series_by_id'[s].tokens # series_by_id[s].tokens
                => /\ Calls("nft_mint") /\ outcome'.result = "Ok"
                   /\ Resolved(outcome'.mint_id) = s
      ]_vars

\* a copies = 1 series, remapped after its one mint, refuses the next mint
\* while a second series exists
C2_Witness ==
    /\ Called("nft_mint") /\ outcome.result = "SupplyExhausted"
    /\ outcome.deposit = LargestDeposit
    /\ Cardinality(DOMAIN series_by_id) = 2
    /\ \E s \in DOMAIN series_by_id :
        /\ series_id_by_mint_id[outcome.mint_id] = s
        /\ series_by_id[s].metadata.copies = Some(1)
        /\ IssuedCount(s) = 1
        /\ outcome.mint_id # s

(* C3: in every reachable state the issued set of series s holding k       *)
(* tokens is exactly {"s:1", ..., "s:k"}: every id reads back as series s  *)
(* and an ordinal, and the ordinals are 1..k without gap or repetition.    *)
C3_GaplessTokenIds ==
    \A s \in DOMAIN series_by_id :
        LET tokens == IssuedSet(s) IN
        /\ \A t \in tokens : Cardinality(Colons(t)) = 1
        /\ {ParseTokenId(t) : t \in tokens} = {<<s, i>> : i \in 1 .. Cardinality(tokens)}

(* C4: in every reachable state series_id_by_mint_id is a one-to-one       *)
(* correspondence with the stored series: each entry points to a stored    *)
(* series whose mint_id field is the entry's key, and each stored series   *)
(* is the value of exactly one entry.                                      *)
C4_MintIdBijection ==
    /\ \A m \in DOMAIN series_id_by_mint_id :
        /\ series_id_by_mint_id[m] \in DOMAIN series_by_id
        /\ series_by_id[series_id_by_mint_id[m]].mint_id = m
    /\ \A s \in DOMAIN series_by_id :
        Cardinality({m \in DOMAIN series_id_by_mint_id : series_id_by_mint_id[m] = s}) = 1

\* two series, one of them just repointed to another mint id
C4_Witness ==
    /\ Called("update_mint_id") /\ outcome.result = "Ok"
    /\ outcome.old_mint_id # outcome.new_mint_id
    /\ Cardinality(DOMAIN series_by_id) = 2
    /\ outcome.new_mint_id \in DOMAIN series_id_by_mint_id

\* the mint id a create_series step ends up using: the supplied one, or the
\* number of stored series plus one
FinalMintIdOfCall ==
    IF outcome'.mint_id # None THEN unwrap(outcome'.mint_id)
    ELSE Cardinality(DOMAIN series_by_id) + 1

(* C5: create_series by an approved creator fails with DuplicateMintId     *)
(* exactly when its final mint id (supplied, or series count + 1) is       *)
(* already a key of series_id_by_mint_id, and that failure leaves the      *)
(* mapping, the earlier series and the rest of the store unchanged.        *)
C5_DuplicateMintId ==
    [][(Calls("create_series") /\ outcome'.caller \in approved_creators)
            => /\ outcome'.result = "DuplicateMintId"
                    <=> FinalMintIdOfCall \in DOMAIN series_id_by_mint_id
               /\ outcome'.result = "DuplicateMintId" => UNCHANGED store_vars
      ]_vars

\* a second create_series with the explicit mint id 3 that series 1 holds
C5_Witness ==
    /\ Called("create_series") /\ outcome.result = "DuplicateMintId"
    /\ outcome.mint_id = Some(3)
    /\ 3 \in DOMAIN series_id_by_mint_id
    /\ series_id_by_mint_id[3] = 1
    /\ series_by_id[1].mint_id = 3
    /\ Cardinality(DOMAIN series_by_id) = 1

(* C6: update_mint_id(old, new) by an account that does not own the series *)
(* old resolves to fails with Unauthorized and leaves the mapping (the old *)
(* and new entries included), the series records and the rest of the store *)
(* as they were.                                                           *)
C6_NonOwnerUpdate ==
    [][(/\ Calls("update_mint_id")
        /\ outcome'.old_mint_id \in DOMAIN series_id_by_mint_id
        /\ series_by_id[Resolved(outcome'.old_mint_id)].owner_id # outcome'.caller)
            => /\ outcome'.result = "Unauthorized"
               /\ UNCHANGED store_vars
      ]_vars

\* another approved creator tried to move a mapped mint id to a free one
C6_Witness ==
    /\ Called("update_mint_id") /\ outcome.result = "Unauthorized"
    /\ outcome.caller \in approved_creators
    /\ outcome.old_mint_id \in DOMAIN series_id_by_mint_id
    /\ outcome.new_mint_id \notin DOMAIN series_id_by_mint_id
    /\ series_by_id[Resolved(outcome.old_mint_id)].owner_id # outcome.caller

(* C7 as stated: whenever update_mint_id(old, new) succeeds, for any old   *)
(* and new, afterwards old is unmapped, new is mapped to that series and   *)
(* series.mint_id = new.                                                   *)
C7_AnyOldAndNew ==
    [][(Calls("update_mint_id") /\ outcome'.result = "Ok")
            => LET s == Resolved(outcome'.old_mint_id) IN
               /\ outcome'.old_mint_id \notin DOMAIN series_id_by_mint_id'
               /\ outcome'.new_mint_id \in DOMAIN series_id_by_mint_id'
               /\ series_id_by_mint_id'[outcome'.new_mint_id] = s
               /\ series_by_id'[s].mint_id = outcome'.new_mint_id
      ]_vars

(* C7 amended: whenever update_mint_id(old, new) succeeds, afterwards new  *)
(* is mapped to that series and series.mint_id = new; old is unmapped when *)
(* old # new, and when old = new the mapping is as it was before the call. *)
C7_Remap ==
    [][(Calls("update_mint_id") /\ outcome'.result = "Ok")
            => LET s == Resolved(outcome'.old_mint_id) IN
               /\ series_by_id[s].owner_id = outcome'.caller
               /\ outcome'.new_mint_id \in DOMAIN series_id_by_mint_id'
               /\ series_id_by_mint_id'[outcome'.new_mint_id] = s
               /\ series_by_id'[s].mint_id = outcome'.new_mint_id
               /\ IF outcome'.old_mint_id # outcome'.new_mint_id
                  THEN outcome'.old_mint_id \notin DOMAIN series_id_by_mint_id'
                  ELSE series_id_by_mint_id' = series_id_by_mint_id
      ]_vars

\* the owner moved a series that has issued a token from old to another id
C7_Witness ==
    /\ Called("update_mint_id") /\ outcome.result = "Ok"
    /\ outcome.old_mint_id # outcome.new_mint_id
    /\ outcome.old_mint_id \notin DOMAIN series_id_by_mint_id
    /\ series_by_id[Resolved(outcome.new_mint_id)].owner_id = outcome.caller
    /\ IssuedCount(Resolved(outcome.new_mint_id)) > 0

(* C8: nft_mint fails as a malformed payload exactly when the payload's    *)
(* drop-id field is not "mint_id" or its account-id field is not           *)
(* "receiver_id" (a missing field included), whatever key_id_field holds,  *)
(* and then nothing is mutated: series, token store, ownership index and   *)
(* event log are unchanged.                                                *)
C8_MalformedPayload ==
    [][Calls("nft_mint")
            => LET k == outcome'.keypom_args IN
               /\ outcome'.result = "MalformedIntegrityPayload"
                    <=> \/ k.drop_id_field # Some("mint_id")
                        \/ k.account_id_field # Some("receiver_id")
               /\ outcome'.result = "MalformedIntegrityPayload" => UNCHANGED store_vars
      ]_vars

\* a mint that only the drop-id field name "wrong_name" stops
C8_Witness ==
    /\ Called("nft_mint") /\ outcome.result = "MalformedIntegrityPayload"
    /\ outcome.keypom_args.drop_id_field = Some("wrong_name")
    /\ outcome.keypom_args.account_id_field = Some("receiver_id")
    /\ outcome.caller \in approved_minters
    /\ outcome.deposit = LargestDeposit
    /\ outcome.mint_id \in DOMAIN series_id_by_mint_id
    /\ series_by_id[Resolved(outcome.mint_id)].metadata.copies = None
    /\ IssuedCount(Resolved(outcome.mint_id)) = 1

(* C9: a create_series call by a caller outside approved_creators, an      *)
(* nft_mint call by a caller outside approved_minters and an               *)
(* update_mint_id call by a caller who does not own the series old         *)
(* resolves to all leave the state unchanged, and fail with Unauthorized   *)
(* unless an earlier validation (payload, unmapped old id) failed first.   *)
C9_Authorised ==
    [][/\ (Calls("create_series") /\ outcome'.caller \notin approved_creators)
            => outcome'.result = "Unauthorized" /\ UNCHANGED store_vars
       /\ (Calls("nft_mint") /\ outcome'.caller \notin approved_minters)
            => /\ UNCHANGED store_vars
               /\ WellFormed(outcome'.keypom_args) => outcome'.result = "Unauthorized"
       /\ (/\ Calls("update_mint_id")
           /\ ~(/\ outcome'.old_mint_id \in DOMAIN series_id_by_mint_id
                /\ series_by_id[Resolved(outcome'.old_mint_id)].owner_id = outcome'.caller))
            => /\ UNCHANGED store_vars
               /\ outcome'.old_mint_id \in DOMAIN series_id_by_mint_id
                    => outcome'.result = "Unauthorized"
      ]_vars

\* an approved creator who is no approved minter was refused a mint that
\* would otherwise have gone through
C9_Witness ==
    /\ Called("nft_mint") /\ outcome.result = "Unauthorized"
    /\ outcome.caller \in approved_creators \ approved_minters
    /\ WellFormed(outcome.keypom_args)
    /\ outcome.deposit = LargestDeposit
    /\ outcome.mint_id \in DOMAIN series_id_by_mint_id
    /\ series_by_id[Resolved(outcome.mint_id)].metadata.copies = None

\* what a create_series that passes its checks adds to storage
CreateStorage == Cardinality({"series_id_by_mint_id entry", "series_by_id entry"})

\* what an nft_mint that passes its checks adds to storage
MintStorage ==
    Cardinality({"series.tokens element", "tokens_by_id entry", "tokens_per_owner element"})

(* C10: a call fails with InsufficientDeposit exactly when it is a         *)
(* create_series or nft_mint call that passes every other validation and   *)
(* attaches less than the cost of the storage it added; the failure leaves *)
(* everything the contract stores (mapping, series records and their       *)
(* issued sets, token records, ownership index) as before the call;        *)
(* update_mint_id never fails with InsufficientDeposit.                    *)
C10_InsufficientDeposit ==
    [][/\ Calls("create_series")
            => (outcome'.result = "InsufficientDeposit"
                    <=> /\ outcome'.caller \in approved_creators
                        /\ FinalMintIdOfCall \notin DOMAIN series_id_by_mint_id
                        /\ outcome'.deposit < CreateStorage)
       /\ Calls("nft_mint")
            => (outcome'.result = "InsufficientDeposit"
                    <=> /\ WellFormed(outcome'.keypom_args)
                        /\ outcome'.caller \in approved_minters
                        /\ outcome'.mint_id \in DOMAIN series_id_by_mint_id
                        /\ LET s == Resolved(outcome'.mint_id)
                               copies == series_by_id[s].metadata.copies
                           IN copies = None \/ IssuedCount(s) < unwrap(copies)
                        /\ outcome'.deposit < MintStorage)
       /\ Calls("update_mint_id") => outcome'.result # "InsufficientDeposit"
       /\ (~Calls("none") /\ outcome'.result = "InsufficientDeposit")
            => UNCHANGED contract_vars
      ]_vars

\* a mint into a series that already holds a token, refused only for its deposit
C10_Witness ==
    /\ Called("nft_mint") /\ outcome.result = "InsufficientDeposit"
    /\ outcome.deposit > 0
    /\ IssuedCount(Resolved(outcome.mint_id)) = 1
    /\ Cardinality(DOMAIN tokens_by_id) = 1

(* C11: the stored series are numbered 1..n: a successful create_series    *)
(* adds exactly the series n + 1 to the n stored ones and leaves the       *)
(* stored ones in place, and no other step, a failed create_series         *)
(* included, changes which series ids are stored.                          *)
C11_SeriesIds ==
    [][LET n == Cardinality(DOMAIN series_by_id) IN
       /\ DOMAIN series_by_id = 1 .. n
       /\ IF Calls("create_series") /\ outcome'.result = "Ok"
          THEN /\ DOMAIN series_by_id' = 1 .. (n + 1)
               /\ \A s \in 1 .. n : series_by_id'[s] = series_by_id[s]
          ELSE DOMAIN series_by_id' = DOMAIN series_by_id
      ]_vars

\* the second series has just been created, the first one under a mint id
\* other than its series id
C11_Witness ==
    /\ Called("create_series") /\ outcome.result = "Ok"
    /\ DOMAIN series_by_id = {1, 2}
    /\ series_by_id[1].mint_id # 1

(* C12: every call that is not a successful nft_mint writes no event and   *)
(* stores no token; a successful nft_mint stores one new token and writes  *)
(* exactly one mint event, whose one entry names the receiver as owner,    *)
(* lists exactly the new token id and has no memo; so there are always as  *)
(* many mint events as stored tokens.                                      *)
C12_OneEventPerMint ==
    [][outcome'.op # "none"
        => /\ Len(events') = Cardinality(DOMAIN tokens_by_id')
           /\ IF Calls("nft_mint") /\ outcome'.result = "Ok"
              THEN \E t \in DOMAIN tokens_by_id' \ DOMAIN tokens_by_id :
                    /\ DOMAIN tokens_by_id' = DOMAIN tokens_by_id \cup {t}
                    /\ Len(outcome'.logs) = 1
                    /\ events' = Append(events, outcome'.logs[1])
                    /\ outcome'.logs[1].event = "nft_mint"
                    /\ outcome'.logs[1].data
                            = <<[owner_id |-> outcome'.receiver_id,
                                 token_ids |-> <<t>>, memo |-> None]>>
              ELSE /\ outcome'.logs = <<>>
                   /\ events' = events
                   /\ DOMAIN tokens_by_id' = DOMAIN tokens_by_id
      ]_vars

(* C13: nft_mint reports the first check that fails, in the order payload  *)
(* (MalformedIntegrityPayload), approved minter (Unauthorized), mint id    *)
(* resolution (UnknownMintId), supply ceiling (SupplyExhausted); a call    *)
(* that passes all four returns or fails on its deposit.                   *)
C13_ValidationOrder ==
    [][Calls("nft_mint")
        => outcome'.result
            = IF ~WellFormed(outcome'.keypom_args) THEN "MalformedIntegrityPayload"
              ELSE IF outcome'.caller \notin approved_minters THEN "Unauthorized"
              ELSE IF outcome'.mint_id \notin DOMAIN series_id_by_mint_id
                   THEN "UnknownMintId"
              ELSE IF LET s == Resolved(outcome'.mint_id)
                          copies == series_by_id[s].metadata.copies
                      IN is_some(copies) /\ IssuedCount(s) >= unwrap(copies)
                   THEN "SupplyExhausted"
              ELSE IF outcome'.deposit = LargestDeposit THEN "Ok"
              ELSE "InsufficientDeposit"
      ]_vars

\* a call with a bad payload, from a caller who is no approved minter, on a
\* mint id that is not mapped, has failed on its payload
C13_Witness ==
    /\ Called("nft_mint") /\ outcome.result = "MalformedIntegrityPayload"
    /\ outcome.caller \notin approved_minters
    /\ outcome.mint_id \notin DOMAIN series_id_by_mint_id
    /\ DOMAIN series_by_id # {}

(* C14: update_mint_id(old, new) fails with UnknownMintId when old is not  *)
(* mapped, whoever calls, and fails with DuplicateMintId when the owner of *)
(* old's series calls it with new mapped to another series; either way the *)
(* store is left as it was: the mapping, old and new included, and every   *)
(* series record.                                                          *)
C14_FailedUpdate ==
    [][Calls("update_mint_id")
        => LET old == outcome'.old_mint_id
               new == outcome'.new_mint_id
           IN
           /\ old \notin DOMAIN series_id_by_mint_id
                => /\ outcome'.result = "UnknownMintId"
                   /\ UNCHANGED store_vars
           /\ (/\ old \in DOMAIN series_id_by_mint_id
               /\ series_by_id[Resolved(old)].owner_id = outcome'.caller
               /\ new \in DOMAIN series_id_by_mint_id
               /\ Resolved(new) # Resolved(old))
                => /\ outcome'.result = "DuplicateMintId"
                   /\ UNCHANGED store_vars
                   /\ series_id_by_mint_id'[old] = Resolved(old)
                   /\ series_id_by_mint_id'[new] = Resolved(new)
      ]_vars

\* the owner of one series has just asked for the mint id of the other
C14_Witness ==
    /\ Called("update_mint_id") /\ outcome.result = "DuplicateMintId"
    /\ outcome.old_mint_id \in DOMAIN series_id_by_mint_id
    /\ outcome.new_mint_id \in DOMAIN series_id_by_mint_id
    /\ Resolved(outcome.old_mint_id) # Resolved(outcome.new_mint_id)
    /\ series_by_id[Resolved(outcome.old_mint_id)].owner_id = outcome.caller

(* C15: no call made from the initial empty state ever fails with          *)
(* DuplicateSeriesId, DuplicateTokenId or UnknownSeries.                   *)
C15_DefensiveFailures ==
    outcome # NoOutcome
        => outcome.result \notin {"DuplicateSeriesId", "DuplicateTokenId", "UnknownSeries"}

\* both series have issued a token, the second of them through a mint id it
\* was repointed to: each defensive check has been passed
C15_Witness ==
    /\ Called("nft_mint") /\ outcome.result = "Ok"
    /\ DOMAIN series_by_id = {1, 2}
    /\ IssuedCount(1) = 1 /\ IssuedCount(2) = 1
    /\ series_by_id[2].mint_id = outcome.mint_id
    /\ outcome.mint_id # 2

(* C17: any two distinct stored series keep their issued sets under        *)
(* different storage prefixes: the decimal series id followed by the       *)
(* creator's account id differs between them, whatever the account ids.    *)
C17_UniquePrefix ==
    \A s, t \in DOMAIN series_by_id :
        s # t => series_by_id[s].tokens.prefix # series_by_id[t].tokens.prefix

\* the elements of the issued set of series s after the step
IssuedSetAfter(s) == UnorderedSet_iter(series_tokens', series_by_id'[s].tokens)

\* what create_series fixes of series s for good
Frozen(s) ==
    <<series_by_id[s].metadata, series_by_id[s].royalty, series_by_id[s].owner_id>>

(* C16: no step removes a series, a token or an element of an issued set,  *)
(* or changes a stored token or a series' metadata, royalty or owner.  A   *)
(* successful nft_mint adds one token to the store and to the issued set   *)
(* of the series its mint id resolves to, and leaves the mapping, that     *)
(* series' mint_id and every other series with its issued set as they      *)
(* were.  A successful update_mint_id changes the mapping at old and new   *)
(* only and the mint_id of the one series only, and leaves every issued    *)
(* set and the token store as they were.                                   *)
C16_Frame ==
    [][/\ \A s \in DOMAIN series_by_id :
            /\ s \in DOMAIN series_by_id'
            /\ Frozen(s)' = Frozen(s)
            /\ IssuedSet(s) \subseteq IssuedSetAfter(s)
       /\ \A t \in DOMAIN tokens_by_id :
            t \in DOMAIN tokens_by_id' /\ tokens_by_id'[t] = tokens_by_id[t]
       /\ (Calls("nft_mint") /\ outcome'.result = "Ok")
            => LET r == Resolved(outcome'.mint_id) IN
               /\ series_id_by_mint_id' = series_id_by_mint_id
               /\ DOMAIN series_by_id' = DOMAIN series_by_id
               /\ series_by_id'[r].mint_id = series_by_id[r].mint_id
               /\ \A s \in DOMAIN series_by_id \ {r} :
                    series_by_id'[s] = series_by_id[s] /\ IssuedSetAfter(s) = IssuedSet(s)
               /\ \E t \in DOMAIN tokens_by_id' \ DOMAIN tokens_by_id :
                    /\ DOMAIN tokens_by_id' = DOMAIN tokens_by_id \cup {t}
                    /\ IssuedSetAfter(r) = IssuedSet(r) \cup {t}
       /\ (Calls("update_mint_id") /\ outcome'.result = "Ok")
            => LET old == outcome'.old_mint_id
                   new == outcome'.new_mint_id
                   r == Resolved(old)
               IN
               /\ \A m \in MintIds \ {old, new} :
                    /\ m \in DOMAIN series_id_by_mint_id' <=> m \in DOMAIN series_id_by_mint_id
                    /\ m \in DOMAIN series_id_by_mint_id
                        => series_id_by_mint_id'[m] = series_id_by_mint_id[m]
               /\ DOMAIN series_by_id' = DOMAIN series_by_id
               /\ \A s \in DOMAIN series_by_id \ {r} : series_by_id'[s] = series_by_id[s]
               /\ series_by_id'[r] = [series_by_id[r] EXCEPT !.mint_id = new]
               /\ \A s \in DOMAIN series_by_id : IssuedSetAfter(s) = IssuedSet(s)
               /\ UNCHANGED <<tokens_by_id, tokens_per_owner, series_tokens>>
      ]_vars

\* an nft_mint step with a well-formed payload, an approved minter and a
\* deposit that covers it
PaidMintByMinter ==
    /\ Calls("nft_mint")
    /\ WellFormed(outcome'.keypom_args)
    /\ outcome'.caller \in approved_minters
    /\ outcome'.deposit = LargestDeposit

(* C18: a successful update_mint_id(old, new) with old # new leaves old    *)
(* unmapped and new mapped to the series old resolved to, whose issued     *)
(* count and ceiling it does not touch.  From then on, as in any state, an *)
(* otherwise valid nft_mint fails with UnknownMintId on a mint id that is  *)
(* not mapped, and on a mapped one mints into the series it resolves to:   *)
(* with k tokens issued it fails with SupplyExhausted at the ceiling and   *)
(* otherwise stores the token "s:k+1" of series s.  A mint id that is not  *)
(* mapped can be taken by the create_series of an approved creator and by  *)
(* the update_mint_id of a series' owner.                                  *)
C18_RemapKeepsMinting ==
    [][/\ (/\ Calls("update_mint_id") /\ outcome'.result = "Ok"
           /\ outcome'.old_mint_id # outcome'.new_mint_id)
            => LET r == Resolved(outcome'.old_mint_id) IN
               /\ outcome'.old_mint_id \notin DOMAIN series_id_by_mint_id'
               /\ series_id_by_mint_id'[outcome'.new_mint_id] = r
               /\ series_by_id'[r].tokens = series_by_id[r].tokens
               /\ series_by_id'[r].metadata = series_by_id[r].metadata
       /\ PaidMintByMinter
            => IF outcome'.mint_id \notin DOMAIN series_id_by_mint_id
               THEN outcome'.result = "UnknownMintId" /\ UNCHANGED store_vars
               ELSE LET s == Resolved(outcome'.mint_id)
                        k == IssuedCount(s)
                        copies == series_by_id[s].metadata.copies
                    IN
                    IF is_some(copies) /\ k >= unwrap(copies)
                    THEN outcome'.result = "SupplyExhausted" /\ UNCHANGED store_vars
                    ELSE /\ outcome'.result = "Ok"
                         /\ UnorderedSet_len(series_by_id'[s].tokens) = k + 1
                         /\ \E t \in DOMAIN tokens_by_id' \ DOMAIN tokens_by_id :
                                /\ DOMAIN tokens_by_id' = DOMAIN tokens_by_id \cup {t}
                                /\ ParseTokenId(t) = <<s, k + 1>>
                                /\ tokens_by_id'[t].series_id = s
       /\ (/\ Calls("create_series")
           /\ outcome'.caller \in approved_creators
           /\ outcome'.deposit = LargestDeposit
           /\ FinalMintIdOfCall \notin DOMAIN series_id_by_mint_id)
            => /\ outcome'.result = "Ok"
               /\ series_id_by_mint_id'[FinalMintIdOfCall]
                    = Cardinality(DOMAIN series_by_id) + 1
       /\ (/\ Calls("update_mint_id")
           /\ outcome'.old_mint_id \in DOMAIN series_id_by_mint_id
           /\ series_by_id[Resolved(outcome'.old_mint_id)].owner_id = outcome'.caller
           /\ outcome'.new_mint_id \notin DOMAIN series_id_by_mint_id)
            => outcome'.result = "Ok"
      ]_vars

\* series 1, with one token issued, has just been moved from mint id 1 to
\* another one, which frees mint id 1 while a second series is stored
C18_Witness ==
    /\ Called("update_mint_id") /\ outcome.result = "Ok"
    /\ outcome.old_mint_id = 1 /\ outcome.new_mint_id # 1
    /\ 1 \notin DOMAIN series_id_by_mint_id
    /\ Resolved(outcome.new_mint_id) = 1
    /\ IssuedCount(1) = 1
    /\ 2 \in DOMAIN series_by_id

(* C19: the token store and the issued sets agree.  The keys of            *)
(* tokens_by_id are the union of the issued sets and each of them is in    *)
(* the issued set of one series only; the token stored under "s:k" has     *)
(* series_id s, no approvals and next_approval_id 0, and is in the         *)
(* ownership index of its owner, who is the receiver_id of the nft_mint    *)
(* that stored it.                                                         *)
C19_TokensAgree ==
    [][/\ DOMAIN tokens_by_id = UNION {IssuedSet(s) : s \in DOMAIN series_by_id}
       /\ \A t \in DOMAIN tokens_by_id :
            LET token == tokens_by_id[t] IN
            /\ Cardinality({s \in DOMAIN series_by_id : t \in IssuedSet(s)}) = 1
            /\ Cardinality(Colons(t)) = 1
            /\ token.series_id = ParseTokenId(t)[1]
            /\ t \in IssuedSet(token.series_id)
            /\ token.approved_account_ids = <<>>
            /\ token.next_approval_id = 0
            /\ token.owner_id \in DOMAIN tokens_per_owner
            /\ t \in tokens_per_owner[token.owner_id]
       /\ (Calls("nft_mint") /\ outcome'.result = "Ok")
            => \A t \in DOMAIN tokens_by_id' \ DOMAIN tokens_by_id :
                    tokens_by_id'[t].owner_id = outcome'.receiver_id
      ]_vars

====
